---- MODULE Spec2Model ----
(***************************************************************************)
(* KMS-backed signing and broadcast of reward transactions:                *)
(* mainapps/blockchain/kms_signer.py (KMSWeb3Signer,                       *)
(* RewardDistributorService) driven by the send_test_reward command, with  *)
(* a simulated node (confirmed count, mempool, receipts) and a simulated   *)
(* signing oracle.  Spec runs the commands one after another, SpecFair     *)
(* adds that a running command keeps running, SpecConcurrent interleaves   *)
(* them.  SpecSign exercises sign_transaction alone, SpecAmount the        *)
(* conversion of the --amount option, SpecFees the fee and gas fields of   *)
(* the two transactions the service builds, SpecWebhook the token-purchase *)
(* part of core/views.py FlutterwaveWebhookView with the                   *)
(* send_direct_transfer command, and SpecKyc the kyc_reward view of        *)
(* mainapps/accounts/views.py.                                             *)
(***************************************************************************)
EXTENDS Integers, Sequences, FiniteSets, TLC

\* ------------------------------------------------------------------ bounds
NCallers == 2
InitMaxNonce == 1
MaxLag == 1
MaxExternal == 2
MaxAmount == 1200
FloatDigits == 2
NDeliveries == 2
NRequests == 2
MaxFee == 90

Callers == 1..NCallers

\* "no value" for an integer local, and the exception marker of recover_v
NoInt == -1
RAISE == -1

Max(a, b) == IF a >= b THEN a ELSE b

\* --------------------------------------------------------------- addresses
\* An address string is the account it names plus the letter case it is
\* written in; only the checksum form compares equal to a derived address.
Addr(a, f) == [a |-> a, form |-> f]

NoAddr == Addr("None", "none")

\* what a failed public-key recovery leaves in place of an address
ExcAddr == Addr("Exc", "none")

\* a string that is not an address
InvalidAddr == Addr("Invalid", "malformed")

\* Web3.to_checksum_address: ExcAddr stands for the ValueError it raises
\* for a string that is not an address
to_checksum_address(s) ==
    IF s.form = "malformed" THEN ExcAddr ELSE [s EXCEPT !.form = "checksum"]

lower(s) == [s EXCEPT !.form = "lower"]

\* the literal of kms_signer.py line 38 and its lower-case twin of line 41
FUNDED_ADDRESS == Addr("Funded", "checksum")

FUNDED_ADDRESS_LOWER == Addr("Funded", "lower")

\* ------------------------------------------------------------ keys, oracle
Keys == {"K_funded", "K_other"}

KeyAccount(k) == CASE k = "K_funded" -> "Funded"
                   [] k = "K_other" -> "Other"
                   [] OTHER -> "Junk"

_pubkey_bytes_to_address(k) == Addr(KeyAccount(k), "checksum")

\* The group order SECP256K1_N of kms_signer.py line 16, scaled to a small
\* odd prime: the values of s are 1..SECP256K1_N - 1.
SECP256K1_N == 7

\* A signature (r, s) as the oracle returns it: the key that produced it,
\* the recovery id under which that key is recovered with this s, what
\* recovery with the other id yields (an unrelated key, or an exception),
\* and s.  st "bad" is a malformed signature (recovery raises for both
\* ids), st "error" is the oracle call itself failing.
Sig(st, k, p, w, s) == [st |-> st, key |-> k, par |-> p, wrong |-> w, s |-> s]

NoSig == Sig("none", "none", 0, "exc", 0)

KmsError == Sig("error", "none", 0, "exc", 0)

\* the answers the oracle gives the service: low s, and one with high s
Signatures ==
    {Sig("ok", k, p, "junk", 1) : k \in Keys, p \in 0..1}
        \cup {Sig("ok", "K_funded", 1, "exc", 1),
              Sig("ok", "K_funded", 0, "junk", SECP256K1_N - 1),
              Sig("bad", "none", 0, "exc", 1)}

OracleResponses == Signatures \cup {KmsError}

\* every answer the oracle can give
AllSignatures ==
    {Sig("ok", k, p, w, s) : k \in Keys, p \in 0..1, w \in {"junk", "exc"},
                            s \in 1..(SECP256K1_N - 1)}
        \cup {Sig("bad", "none", 0, "exc", s) : s \in 1..(SECP256K1_N - 1)}
        \cup {KmsError}

\* sign_transaction replacing s from the half of the range on
low_s_from_half(sg) ==
    IF sg.s >= SECP256K1_N \div 2
    THEN [sg EXCEPT !.s = SECP256K1_N - sg.s, !.par = 1 - sg.par]
    ELSE sg

\* sign_transaction lines 133-135: s above half the order is replaced by
\* its complement; (r, N - s) is the same key's signature under the other
\* recovery id
low_s(sg) ==
    IF sg.s > SECP256K1_N \div 2
    THEN [sg EXCEPT !.s = SECP256K1_N - sg.s, !.par = 1 - sg.par]
    ELSE sg

\* the recovered key, or "exc" when recovery raises
recover_public_key_from_msg_hash(sg, v) ==
    IF sg.st # "ok" THEN "exc"
    ELSE IF v = sg.par THEN sg.key
    ELSE IF sg.wrong = "exc" THEN "exc"
    ELSE "K_junk"

\* one iteration of the loop body of recover_v: the address recovered with
\* candidate v, or ExcAddr when recovery raised
RecoveredAddr(sg, v) ==
    LET k == recover_public_key_from_msg_hash(sg, v)
    IN IF k = "exc" THEN ExcAddr ELSE _pubkey_bytes_to_address(k)

RECURSIVE recover_loop(_, _, _, _)
recover_loop(sg, sender, cands, i) ==
    IF i > Len(cands) THEN RAISE
    ELSE IF RecoveredAddr(sg, cands[i]) = sender THEN cands[i]
    ELSE recover_loop(sg, sender, cands, i + 1)

\* recover_v falling back to recovery id 0 when no candidate matches
recover_v_defaults(sg, sender) ==
    LET v == recover_loop(sg, sender, <<0, 1>>, 1)
    IN IF v = RAISE THEN 0 ELSE v

\* recover_v giving up when recovery with candidate 0 raises
recover_v_stops_at_error(sg, sender) ==
    IF RecoveredAddr(sg, 0) = ExcAddr THEN RAISE
    ELSE recover_loop(sg, sender, <<0, 1>>, 1)

recover_v(sg, sender) == recover_loop(sg, sender, <<0, 1>>, 1)

\* ----------------------------------------------------------------- amounts
\* The literal 10**18 of distribute_reward line 213, scaled to three
\* decimals so that amounts stay small.
WEI_PER_TOKEN == 1000

TOKEN_DECIMALS == 3

RECURSIVE Pow10(_)
Pow10(n) == IF n = 0 THEN 1 ELSE 10 * Pow10(n - 1)

\* the number of decimal digits of a natural number
RECURSIVE Digits(_)
Digits(n) == IF n < 10 THEN 1 ELSE 1 + Digits(n \div 10)

Abs(n) == IF n < 0 THEN -n ELSE n

Sign(n) == IF n < 0 THEN -1 ELSE 1

\* A decimal.Decimal: coefficient digits and the number of them after the
\* point (value = digits / 10^scale).
Dec(digits, scale) == [digits |-> digits, scale |-> scale]

NoDec == Dec(NoInt, 0)

\* A float: the nearest value that has FloatDigits significant digits
\* (binary64 holds 15 to 17 against the 18 decimals of the token;
\* FloatDigits against TOKEN_DECIMALS keeps that proportion), written as
\* mantissa * 10^exp; ties go to the even mantissa.
Float(mant, exp) == [mant |-> mant, exp |-> exp]

\* float(x) for a decimal x, as argparse type=float and float(Decimal(..))
\* compute it
to_float(d) ==
    LET a == Abs(d.digits)
        n == Digits(a)
        drop == IF n > FloatDigits THEN n - FloatDigits ELSE 0
        q == Pow10(drop)
        lo == a \div q
        rem == a % q
        up == 2 * rem > q \/ (2 * rem = q /\ lo % 2 = 1)
    IN Float(Sign(d.digits) * (IF up THEN lo + 1 ELSE lo), drop - d.scale)

\* Decimal(str(f)): the exact decimal value of the float's shortest form
decimal_of_float(f) ==
    IF f.exp >= 0 THEN Dec(f.mant * Pow10(f.exp), 0) ELSE Dec(f.mant, -f.exp)

\* int(Decimal(amount_ether) * 10**18): exact product, truncated
to_wei(d) ==
    IF d.scale <= TOKEN_DECIMALS
    THEN d.digits * Pow10(TOKEN_DECIMALS - d.scale)
    ELSE Sign(d.digits) * (Abs(d.digits) \div Pow10(d.scale - TOKEN_DECIMALS))

\* the exact human amount of x base units of a token with d decimals
from_base_units(x, d) == Dec(x, d)

\* the base units distribute_reward computes for the command option
\* --amount: argparse type=float, Decimal(str(..)), line 213
option_to_wei(d) == to_wei(decimal_of_float(to_float(d)))

\* ------------------------------------------------------------ transactions
\* settings.KYC_REWARD_CHAIN_ID (Polygon Amoy, whose explorer the service
\* prints)
CHAIN_ID == 80002

\* a transaction dict as the service builds it: 'type': 2, the EIP-1559
\* fee keys (fees tells which fee keys the dict has) and the other fields
\* sign_transaction reads; fees and gas are filled in by the builders
Tx(kind, n) ==
    [kind |-> kind, type |-> 2, fees |-> "eip1559", chainId |-> CHAIN_ID,
     nonce |-> n, maxPriorityFeePerGas |-> 0, maxFeePerGas |-> 0, gas |-> 0,
     to |-> IF kind = "cancel" THEN "sender" ELSE "distributor",
     value |-> 0,
     data |-> IF kind = "cancel" THEN "0x" ELSE "distributeReward",
     accessList |-> "[]"]

NoTx == [kind |-> "none", type |-> 0, fees |-> "none", chainId |-> 0,
         nonce |-> NoInt, maxPriorityFeePerGas |-> 0, maxFeePerGas |-> 0,
         gas |-> 0, to |-> "none", value |-> 0, data |-> "none",
         accessList |-> "[]"]

\* ------------------------------------------------------------ fees and gas
\* Fee amounts are counted in gwei.  to_wei(80, 'gwei') and
\* to_wei(120, 'gwei') of _replace_nonce_zero lines 182-186:
MIN_CANCEL_PRIORITY_FEE == 80

MIN_CANCEL_MAX_FEE == 120

\* the literals of lines 194 and 297
CANCEL_GAS == 25000

FALLBACK_GAS == 200000

\* _replace_nonce_zero lines 181-184: p is w3.eth.max_priority_fee, NoInt
\* when the query raises
cancel_priority_fee(p) ==
    IF p = NoInt THEN MIN_CANCEL_PRIORITY_FEE
    ELSE Max(p, MIN_CANCEL_PRIORITY_FEE)

\* _replace_nonce_zero line 186
cancel_max_fee(b, pf) == Max(b * 2 + pf, MIN_CANCEL_MAX_FEE)

\* distribute_reward with the multiplier applied to the base fee only
reward_max_fee_base_only(b, p) == (3 * b) \div 2

\* distribute_reward line 259: int((base_fee + priority_fee) * 1.5)
reward_max_fee(b, p) == (3 * (b + p)) \div 2

\* distribute_reward lines 291-297: int(gas_est * 1.3), or the fallback
\* when estimate_gas raised (est = NoInt)
gas_limit(est) == IF est = NoInt THEN FALLBACK_GAS ELSE (13 * est) \div 10

\* _replace_nonce_zero lines 188-200
cancel_tx(b, p) ==
    [Tx("cancel", 0) EXCEPT
        !.maxPriorityFeePerGas = cancel_priority_fee(p),
        !.maxFeePerGas = cancel_max_fee(b, cancel_priority_fee(p)),
        !.gas = CANCEL_GAS]

\* distribute_reward lines 257-300
reward_tx(n, b, p, est) ==
    [Tx("reward", n) EXCEPT
        !.maxPriorityFeePerGas = p,
        !.maxFeePerGas = reward_max_fee(b, p),
        !.gas = gas_limit(est)]

\* ------------------------------------------------------ sign_transaction
\* sign_transaction lines 113-116: the list that is RLP-encoded, each
\* element with the dict key it was read from
unsigned_payload(t) ==
    << <<"chainId", t.chainId>>, <<"nonce", t.nonce>>,
       <<"maxPriorityFeePerGas", t.maxPriorityFeePerGas>>,
       <<"maxFeePerGas", t.maxFeePerGas>>, <<"gas", t.gas>>,
       <<"to", t.to>>, <<"value", t.value>>, <<"data", t.data>>,
       <<"accessList", t.accessList>> >>

\* the message sent to the oracle: keccak(type byte + rlp(payload))
Digest(ty, pl) == [type |-> ty, payload |-> pl]

NoDigest == Digest(0, <<>>)

\* a signed raw transaction: the leading type byte, the payload list, the
\* signature's v and s, and the account its signature recovers to; kind
\* and nonce repeat what the payload says
Raw(ty, kind, n, pl, v, s, from) ==
    [type |-> ty, kind |-> kind, nonce |-> n, payload |-> pl, v |-> v,
     s |-> s, from |-> from]

NoRaw == Raw(0, "none", NoInt, <<>>, NoInt, NoInt, NoAddr)

\* what sign_transaction did: returned raw, or raised err; asked tells
\* whether kms_client.sign was called, and digest with what
Signed(r, dg) ==
    [ok |-> TRUE, err |-> "none", raw |-> r, asked |-> TRUE, digest |-> dg]

SignError(e, asked, dg) ==
    [ok |-> FALSE, err |-> e, raw |-> NoRaw, asked |-> asked, digest |-> dg]

NoSigned == SignError("none", FALSE, NoDigest)

\* the hash of a raw transaction identifies who sent what at which nonce
TxHash(c, r) == <<c, r.kind, r.nonce>>

NoHash == <<0, "none", NoInt>>

\* sign_transaction assuming recovery id 1 instead of resolving it
sign_transaction_assumes_v(t, resp, sender) ==
    LET pl == unsigned_payload(t)
        dg == Digest(2, pl)
    IN IF t.type # 2 THEN SignError("OnlyEIP1559", FALSE, NoDigest)
       ELSE IF t.fees # "eip1559" THEN SignError("KeyError", FALSE, NoDigest)
       ELSE IF resp = KmsError THEN SignError("OracleError", TRUE, dg)
       ELSE LET n == low_s(resp)
            IN Signed(Raw(2, t.kind, t.nonce, pl, 1, n.s,
                          RecoveredAddr(n, 1)), dg)

\* sign_transaction encoding whatever kind of transaction it is given
sign_transaction_any_type(t, resp, sender) ==
    LET pl == unsigned_payload(t)
        dg == Digest(IF t.type = 2 THEN 2 ELSE 0, pl)
    IN IF resp = KmsError THEN SignError("OracleError", TRUE, dg)
       ELSE LET n == low_s(resp)
                v == recover_v(n, sender)
            IN IF v = RAISE
               THEN SignError("SignatureRecoveryFailed", TRUE, dg)
               ELSE Signed(Raw(IF t.type = 2 THEN 2 ELSE 0, t.kind, t.nonce,
                               pl, v, n.s, RecoveredAddr(n, v)), dg)

\* sign_transaction testing the type after the oracle has signed
sign_transaction_type_check_late(t, resp, sender) ==
    LET pl == unsigned_payload(t)
        dg == Digest(2, pl)
    IN IF t.fees # "eip1559" THEN SignError("KeyError", FALSE, NoDigest)
       ELSE IF resp = KmsError THEN SignError("OracleError", TRUE, dg)
       ELSE IF t.type # 2 THEN SignError("OnlyEIP1559", TRUE, dg)
       ELSE LET n == low_s(resp)
                v == recover_v(n, sender)
            IN IF v = RAISE
               THEN SignError("SignatureRecoveryFailed", TRUE, dg)
               ELSE Signed(Raw(2, t.kind, t.nonce, pl, v, n.s,
                               RecoveredAddr(n, v)), dg)

\* sign_transaction building the envelope from the dict again, fee keys
\* in dict order
sign_transaction_rebuilds_envelope(t, resp, sender) ==
    LET pl == unsigned_payload(t)
        dg == Digest(2, pl)
    IN IF t.type # 2 THEN SignError("OnlyEIP1559", FALSE, NoDigest)
       ELSE IF t.fees # "eip1559" THEN SignError("KeyError", FALSE, NoDigest)
       ELSE IF resp = KmsError THEN SignError("OracleError", TRUE, dg)
       ELSE LET n == low_s(resp)
                v == recover_v(n, sender)
            IN IF v = RAISE
               THEN SignError("SignatureRecoveryFailed", TRUE, dg)
               ELSE Signed(Raw(2, t.kind, t.nonce,
                               [pl EXCEPT ![3] = pl[4], ![4] = pl[3]],
                               v, n.s, RecoveredAddr(n, v)), dg)

\* sign_transaction: the result of signing t when the oracle answers resp.
\* Lines 96-97 reject every type but 0x02, lines 99-109 read the EIP-1559
\* fee keys, 113-120 build the payload and its digest, 126-131 ask the
\* oracle, 133-135 normalise s, 140 resolves v, 142-145 build the 0x02
\* envelope from the same payload list.
sign_transaction(t, resp, sender) ==
    LET pl == unsigned_payload(t)
        dg == Digest(2, pl)
    IN IF t.type # 2 THEN SignError("OnlyEIP1559", FALSE, NoDigest)
       ELSE IF t.fees # "eip1559" THEN SignError("KeyError", FALSE, NoDigest)
       ELSE IF resp = KmsError THEN SignError("OracleError", TRUE, dg)
       ELSE LET n == low_s(resp)
                v == recover_v(n, sender)
            IN IF v = RAISE
               THEN SignError("SignatureRecoveryFailed", TRUE, dg)
               ELSE Signed(Raw(2, t.kind, t.nonce, pl, v, n.s,
                               RecoveredAddr(n, v)), dg)

\* a receipt as web3 returns it
Receipt(h, st) == [transactionHash |-> h, status |-> st, gasUsed |-> 1]

NoReceipt == Receipt(NoHash, NoInt)

\* ------------------------------------------------------------------- state
VARIABLES
    kms_key,        \* settings.KYC_REWARD_KMS_KEY_ID: the key the oracle holds
    env_sender,     \* settings.KYC_REWARD_SENDER_ADDRESS, NoAddr when unset
    pc,             \* each caller's position
    sender_address, \* KMSWeb3Signer.sender_address
    warned,         \* the constructor printed the mismatch warning
    recipient,      \* distribute_reward arguments after lines 212-213
    amount_wei,
    latest_nonce,   \* distribute_reward locals
    pending_nonce,
    nonce,
    fresh_pending,
    gas_est,        \* what estimate_gas answered, NoInt when it raised
    tx,             \* the transaction dict being sent
    sig,            \* the oracle's answer inside sign_transaction
    v_final,
    raw,            \* the signed raw transaction
    tx_hash,
    result,         \* what distribute_reward returned
    err,            \* the exception raised
    report,         \* what the command wrote to stdout
    chainNonce,     \* node: confirmed transaction count of the sender
    external,       \* node: how many of those came from other services
    pool,           \* node: mempool
    receipts,       \* node: receipts of mined transactions
    oracle_log,     \* per caller, the kms_client.sign requests made
    sent_log,       \* per caller, the send_raw_transaction calls made
    amount_option,  \* amount conversion: the --amount option as typed
    amount_out,     \* amount conversion: the base units computed from it
    sign_tx,        \* signing alone: the transaction dict passed in
    sign_resp,      \* signing alone: the oracle's answer
    sign_out,       \* signing alone: what sign_transaction did
    db,             \* webhook: the TokenPurchase row
    wh_pc,          \* webhook: each delivery's position in post()
    event,          \* webhook: each delivery's event data
    payment,        \* webhook: each delivery's loaded TokenPurchase object
    cmd,            \* webhook: what call_command did for the delivery
    transfers,      \* webhook: the results of the transfer_tokens calls
    fee_base,       \* fees alone: the latest block's baseFeePerGas
    fee_priority,   \* fees alone: max_priority_fee, NoInt when it raises
    fee_est,        \* fees alone: the gas estimate, NoInt when it raises
    fee_tx,         \* fees alone: the transaction dict built from them
    kyc_user,       \* kyc_reward: the User row
    kyc_pc,         \* kyc_reward: each request's position in the view
    kyc_obj,        \* kyc_reward: each request's request.user object
    kyc_wallet,     \* kyc_reward: the wallet address each request submits
    kyc_resp,       \* kyc_reward: the status code each request was answered
    kyc_signers,    \* kyc_reward: the requests that constructed a signer
    kyc_sent        \* kyc_reward: the requests whose transfer call returned

cfgv == <<kms_key, env_sender>>

argv == <<recipient, amount_wei>>

amountv == <<amount_option, amount_out>>

\* the state of the components a specification other than the running
\* one is about
signalonev == <<sign_tx, sign_resp, sign_out>>

webhookv == <<db, wh_pc, event, payment, cmd, transfers>>

feev == <<fee_base, fee_priority, fee_est, fee_tx>>

kycv == <<kyc_user, kyc_pc, kyc_obj, kyc_wallet, kyc_resp, kyc_signers,
          kyc_sent>>

restv == <<feev, kycv>>

otherv == <<amountv, signalonev, webhookv, restv>>

\* what no step inside a call changes
fixedv == <<cfgv, otherv, argv>>

signer == <<sender_address, warned>>

noncev == <<latest_nonce, pending_nonce, nonce, fresh_pending, gas_est>>

signv == <<sig, v_final, raw>>

outv == <<tx_hash, result, report>>

nodev == <<chainNonce, external, pool, receipts>>

logs == <<oracle_log, sent_log>>

vars == <<kms_key, env_sender, pc, sender_address, warned, recipient,
          amount_wei, latest_nonce, pending_nonce, nonce, fresh_pending,
          gas_est, tx,
          sig, v_final, raw, tx_hash, result, err, report, chainNonce,
          external, pool, receipts, oracle_log, sent_log, amount_option,
          amount_out, sign_tx, sign_resp, sign_out, db, wh_pc, event,
          payment, cmd, transfers, fee_base, fee_priority, fee_est, fee_tx,
          kyc_user, kyc_pc, kyc_obj, kyc_wallet, kyc_resp, kyc_signers,
          kyc_sent>>

\* the service's own state
servicev == <<cfgv, argv, pc, signer, noncev, tx, signv, outv, err, nodev,
              logs>>

\* what the node reports while the service runs, in gwei: the latest
\* block's baseFeePerGas and w3.eth.max_priority_fee
BaseFees == {30}

PriorityFees == {30}

\* what estimate_gas answers when it does not raise
GasEstimates == {65001}

EnvSenders == {NoAddr, Addr("Funded", "lower"), Addr("Other", "checksum")}

\* the arguments a command can be started with: --recipient, and --amount
\* (-1, 0 and the default 10 tokens)
Recipients == {Addr("Recipient", "lower"), InvalidAddr}

Amounts == {Dec(-1, 0), Dec(0, 0), Dec(10, 0)}

ServiceInit ==
    /\ kms_key \in Keys
    /\ env_sender \in EnvSenders
    /\ pc = [c \in Callers |-> "new"]
    /\ sender_address = [c \in Callers |-> NoAddr]
    /\ recipient = [c \in Callers |-> NoAddr]
    /\ amount_wei = [c \in Callers |-> NoInt]
    /\ warned = [c \in Callers |-> FALSE]
    /\ latest_nonce = [c \in Callers |-> NoInt]
    /\ pending_nonce = [c \in Callers |-> NoInt]
    /\ nonce = [c \in Callers |-> NoInt]
    /\ fresh_pending = [c \in Callers |-> NoInt]
    /\ gas_est = [c \in Callers |-> NoInt]
    /\ tx = [c \in Callers |-> NoTx]
    /\ sig = [c \in Callers |-> NoSig]
    /\ v_final = [c \in Callers |-> NoInt]
    /\ raw = [c \in Callers |-> NoRaw]
    /\ tx_hash = [c \in Callers |-> NoHash]
    /\ result = [c \in Callers |-> NoReceipt]
    /\ err = [c \in Callers |-> "none"]
    /\ report = [c \in Callers |-> "none"]
    /\ chainNonce \in 0..InitMaxNonce
    /\ external = 0
    /\ pool = {}
    /\ receipts = {}
    /\ oracle_log = [c \in Callers |-> <<>>]
    /\ sent_log = [c \in Callers |-> <<>>]

\* no amount conversion is running
AmountIdle == amount_option = NoDec /\ amount_out = NoInt

\* no sign_transaction call outside the service is running
SignIdle == sign_tx = NoTx /\ sign_resp = NoSig /\ sign_out = NoSigned

\* ------------------------------------------------------ token purchases
Deliveries == 1..NDeliveries

\* a TokenPurchase: the fields post() reads and writes; "none" is NULL
Purchase(st, ts, te, w) ==
    [status |-> st, transfer_status |-> ts, transfer_error |-> te,
     wallet_address |-> w, currency |-> "USD"]

NoPurchase == Purchase("none", "none", "none", "")

\* the purchase's charge_amount
CHARGE_AMOUNT == 2

\* the event data of a delivery: status, charged_amount (0 also stands for
\* an absent one) and currency
Event(st, ch, cur) == [status |-> st, charged_amount |-> ch, currency |-> cur]

NoEvent == Event("none", 0, "")

Events ==
    {Event("successful", ch, cur) : ch \in 0..CHARGE_AMOUNT,
                                    cur \in {"usd", "NGN"}}
        \cup {Event(st, 0, "USD") : st \in {"failed", "cancelled", "pending"}}

upper(cur) == IF cur = "usd" THEN "USD" ELSE cur

\* what KmsTokenTransfer.transfer_tokens does: it returns a result with
\* the receipt's status, or raises
TransferResult(raised, st) == [raised |-> raised, status |-> st]

NoTransfer == TransferResult(FALSE, NoInt)

transfer_tokens ==
    {TransferResult(FALSE, 1), TransferResult(FALSE, 0),
     TransferResult(TRUE, NoInt)}

\* what call_command('send_direct_transfer') did: raised, or returned
\* after writing out; res is the transfer result the command saw
Cmd(raised, out, res) == [raised |-> raised, out |-> out, res |-> res]

NoCmd == Cmd(FALSE, "none", NoTransfer)

\* send_direct_transfer Command.handle lines 32-55: the service is
\* constructed outside the try block; inside it every exception of the
\* transfer and every status are turned into a line of output
handle(ctor_raises, res) ==
    IF ctor_raises THEN Cmd(TRUE, "none", NoTransfer)
    ELSE IF res.raised THEN Cmd(FALSE, "Failed", res)
    ELSE IF res.status = 1 THEN Cmd(FALSE, "Success", res)
    ELSE Cmd(FALSE, "Transaction failed", res)

\* no webhook delivery has arrived
WebhookIdle ==
    /\ db = NoPurchase
    /\ wh_pc = [d \in Deliveries |-> "idle"]
    /\ event = [d \in Deliveries |-> NoEvent]
    /\ payment = [d \in Deliveries |-> NoPurchase]
    /\ cmd = [d \in Deliveries |-> NoCmd]
    /\ transfers = <<>>

\* no fee computation is running
FeesIdle ==
    /\ fee_base = 0
    /\ fee_priority = 0
    /\ fee_est = NoInt
    /\ fee_tx = NoTx

\* the requests to kyc_reward
Requests == 1..NRequests

\* a User row: is_kyc_verified, has_been_kyc_rewarded, wallet_address
User(v, r, w) == [is_kyc_verified |-> v, has_been_kyc_rewarded |-> r,
                  wallet_address |-> w]

NoUser == User(FALSE, FALSE, NoAddr)

\* no kyc_reward request is running
KycIdle ==
    /\ kyc_user = NoUser
    /\ kyc_pc = [r \in Requests |-> "new"]
    /\ kyc_obj = [r \in Requests |-> NoUser]
    /\ kyc_wallet = [r \in Requests |-> NoAddr]
    /\ kyc_resp = [r \in Requests |-> NoInt]
    /\ kyc_signers = {}
    /\ kyc_sent = <<>>

RestIdle == FeesIdle /\ KycIdle

Init == ServiceInit /\ AmountIdle /\ SignIdle /\ WebhookIdle /\ RestIdle

Goto(c, l) == pc' = [pc EXCEPT ![c] = l]

\* an exception leaving distribute_reward
Raise(c, e) == /\ pc' = [pc EXCEPT ![c] = "raised"]
               /\ err' = [err EXCEPT ![c] = e]

\* __init__ treating every address mismatch as a warning
Construct_warns_only(c) ==
    /\ pc[c] = "new"
    /\ LET derived == _pubkey_bytes_to_address(kms_key)
       IN /\ Goto(c, "call")
          /\ sender_address' = [sender_address EXCEPT ![c] = derived]
          /\ warned' = [warned EXCEPT ![c] =
                           derived # FUNDED_ADDRESS
                           \/ (env_sender # NoAddr
                                 /\ to_checksum_address(env_sender) # derived)]
          /\ UNCHANGED err
    /\ UNCHANGED <<fixedv, noncev, tx, signv, outv, nodev, logs>>

\* ------------------------------------------------------- KMSWeb3Signer()
\* __init__: derive the address from the oracle's public key, compare it
\* with the hard-coded funded address (fatal) and with the setting (warning).
\* The command constructs the service outside its try block, so a
\* constructor error ends the command without a report.
Construct(c) ==
    /\ pc[c] = "new"
    /\ LET derived == _pubkey_bytes_to_address(kms_key)
       IN IF derived # FUNDED_ADDRESS
          THEN /\ Goto(c, "crashed")
               /\ err' = [err EXCEPT ![c] = "WrongKmsKey"]
               /\ UNCHANGED signer
          ELSE IF lower(derived) # FUNDED_ADDRESS_LOWER
          THEN /\ Goto(c, "crashed")
               /\ err' = [err EXCEPT ![c] = "WrongKmsKeyCritical"]
               /\ UNCHANGED signer
          ELSE /\ Goto(c, "call")
               /\ sender_address' = [sender_address EXCEPT ![c] = derived]
               /\ warned' = [warned EXCEPT ![c] =
                                env_sender # NoAddr
                                /\ to_checksum_address(env_sender) # derived]
               /\ UNCHANGED err
    /\ UNCHANGED <<fixedv, noncev, tx, signv, outv, nodev, logs>>

\* ------------------------------------------------------------------- node
\* the pending-inclusive count: confirmed plus the run of consecutive
\* mempool nonces that starts at the confirmed count
RECURSIVE PendingFrom(_)
PendingFrom(n) == IF \E t \in pool : t.nonce = n THEN PendingFrom(n + 1) ELSE n

\* get_transaction_count(address, "latest")
LatestCount == chainNonce

\* get_transaction_count(address, "pending"): the node's mempool view may
\* miss the mempool or lag up to MaxLag blocks behind the confirmed count,
\* which is why the code takes a maximum
PendingCounts ==
    {p \in 0..PendingFrom(chainNonce) : p >= chainNonce - MaxLag}

\* send_raw_transaction: the answers the node can give for raw transaction r
SendAnswers(r) ==
    IF r.nonce < chainNonce THEN {"nonce too low", "rejected"}
    ELSE {"accepted", "rejected"}

\* the mempool after r is accepted: a transaction at an occupied nonce
\* replaces the occupant
PoolAdd(h, r) == {t \in pool : t.nonce # r.nonce}
                     \cup {[id |-> h, nonce |-> r.nonce]}

\* caller c is inside wait_for_transaction_receipt(h)
Awaits(c, h) == pc[c] \in {"cancel_wait", "wait"} /\ tx_hash[c] = h

\* a block includes the mempool transaction at the confirmed count; its
\* receipt is kept while its sender can still ask for it
Mine ==
    /\ \E t \in pool, st \in {0, 1} :
          /\ t.nonce = chainNonce
          /\ chainNonce' = chainNonce + 1
          /\ pool' = pool \ {t}
          /\ receipts' = IF \E c \in Callers : Awaits(c, t.id)
                         THEN receipts \cup {Receipt(t.id, st)}
                         ELSE receipts
    /\ UNCHANGED external
    /\ UNCHANGED <<fixedv, pc, signer, noncev, tx, signv, outv, err, logs>>

\* Another service signing with the same key (the token-transfer and KYC
\* reward paths use this sender too) gets a transaction mined at the
\* confirmed count; a mempool transaction at that nonce is displaced.
ExternalTx ==
    /\ external < MaxExternal
    /\ external' = external + 1
    /\ chainNonce' = chainNonce + 1
    /\ pool' = {t \in pool : t.nonce # chainNonce}
    /\ UNCHANGED <<fixedv, pc, signer, noncev, tx, signv, outv, err, receipts,
                   logs>>

\* ------------------------------------------- RewardDistributorService
\* The part of sign_transaction and send_raw_transaction every sender shares.
\* DoSign: one kms_client.sign request for t, then recover_v.
DoSign(c, t, okpc) ==
    \E resp \in OracleResponses :
        LET res == sign_transaction(t, resp, sender_address[c])
        IN /\ oracle_log' = [oracle_log EXCEPT
                                ![c] = IF res.asked
                                       THEN Append(@, [kind |-> t.kind,
                                                       nonce |-> t.nonce,
                                                       tx |-> t])
                                       ELSE @]
           /\ sig' = [sig EXCEPT ![c] = low_s(resp)]
           /\ IF res.ok
              THEN /\ v_final' = [v_final EXCEPT ![c] = res.raw.v]
                   /\ raw' = [raw EXCEPT ![c] = res.raw]
                   /\ Goto(c, okpc)
                   /\ UNCHANGED err
              ELSE /\ Raise(c, res.err)
                   /\ UNCHANGED <<v_final, raw>>

\* DoSend: w3.eth.send_raw_transaction(raw) answered with ans
DoSend(c, ans) ==
    /\ ans \in SendAnswers(raw[c])
    /\ sent_log' = [sent_log EXCEPT
                       ![c] = Append(@, [kind |-> raw[c].kind,
                                         nonce |-> raw[c].nonce,
                                         from |-> raw[c].from,
                                         res |-> ans])]
    /\ sig' = [sig EXCEPT ![c] = NoSig]
    /\ v_final' = [v_final EXCEPT ![c] = NoInt]
    /\ raw' = [raw EXCEPT ![c] = NoRaw]
    /\ IF ans = "accepted"
       THEN /\ pool' = PoolAdd(TxHash(c, raw[c]), raw[c])
            /\ tx_hash' = [tx_hash EXCEPT ![c] = TxHash(c, raw[c])]
       ELSE UNCHANGED <<pool, tx_hash>>

\* send_test_reward Command.handle lines 9-20 and distribute_reward lines
\* 212-213: the options, the checksum form of the recipient (a ValueError
\* for a string that is not an address) and the amount in base units
Call(c) ==
    /\ pc[c] = "call"
    /\ \E r \in Recipients, a \in Amounts :
          IF to_checksum_address(r) = ExcAddr
          THEN /\ Raise(c, "InvalidAddress")
               /\ UNCHANGED argv
          ELSE /\ recipient' = [recipient EXCEPT
                                   ![c] = to_checksum_address(r)]
               /\ amount_wei' = [amount_wei EXCEPT ![c] = option_to_wei(a)]
               /\ Goto(c, "get_nonce")
               /\ UNCHANGED err
    /\ UNCHANGED <<cfgv, otherv, signer, noncev, tx, signv, outv, nodev, logs>>

\* distribute_reward clearing nonce 0 whenever the computed nonce is at most 1
GetNonce_clears_low(c) ==
    /\ pc[c] = "get_nonce"
    /\ \E p \in PendingCounts :
          /\ latest_nonce' = [latest_nonce EXCEPT ![c] = LatestCount]
          /\ pending_nonce' = [pending_nonce EXCEPT ![c] = p]
          /\ nonce' = [nonce EXCEPT ![c] = Max(LatestCount, p)]
          /\ IF Max(LatestCount, p) <= 1
             THEN /\ Goto(c, "cancel_sign")
                  /\ \E b \in BaseFees, f \in PriorityFees \cup {NoInt} :
                        tx' = [tx EXCEPT ![c] = cancel_tx(b, f)]
             ELSE /\ Goto(c, "simulate")
                  /\ UNCHANGED tx
    /\ UNCHANGED <<fixedv, signer, fresh_pending, gas_est, signv, outv, err,
                   nodev, logs>>

\* distribute_reward lines 217-223: both counts, their maximum, and the
\* branch on nonce == 0
GetNonce(c) ==
    /\ pc[c] = "get_nonce"
    /\ \E p \in PendingCounts :
          /\ latest_nonce' = [latest_nonce EXCEPT ![c] = LatestCount]
          /\ pending_nonce' = [pending_nonce EXCEPT ![c] = p]
          /\ nonce' = [nonce EXCEPT ![c] = Max(LatestCount, p)]
          /\ IF Max(LatestCount, p) = 0
             THEN /\ Goto(c, "cancel_sign")
                  /\ \E b \in BaseFees, f \in PriorityFees \cup {NoInt} :
                        tx' = [tx EXCEPT ![c] = cancel_tx(b, f)]
             ELSE /\ Goto(c, "simulate")
                  /\ UNCHANGED tx
    /\ UNCHANGED <<fixedv, signer, fresh_pending, gas_est, signv, outv, err,
                   nodev, logs>>

\* _replace_nonce_zero line 202
CancelSign(c) ==
    /\ pc[c] = "cancel_sign"
    /\ DoSign(c, tx[c], "cancel_send")
    /\ UNCHANGED <<fixedv, signer, noncev, tx, outv, nodev, sent_log>>

\* _replace_nonce_zero line 203
CancelSend(c) ==
    /\ pc[c] = "cancel_send"
    /\ \E ans \in {"accepted", "nonce too low", "rejected"} :
          /\ DoSend(c, ans)
          /\ IF ans = "accepted"
             THEN Goto(c, "cancel_wait") /\ UNCHANGED err
             ELSE Raise(c, ans)
    /\ UNCHANGED <<fixedv, signer, noncev, tx, result, report, chainNonce,
                   external, receipts, oracle_log>>

\* _replace_nonce_zero going on whatever the replacement's receipt says
CancelWait_ignores_status(c) ==
    /\ pc[c] = "cancel_wait"
    /\ \/ \E r \in receipts :
             /\ r.transactionHash = tx_hash[c]
             /\ receipts' = receipts \ {r}
             /\ Goto(c, "refresh")
             /\ UNCHANGED err
       \/ /\ \A r \in receipts : r.transactionHash # tx_hash[c]
          /\ Raise(c, "TimeExhausted")
          /\ UNCHANGED receipts
    /\ UNCHANGED <<fixedv, signer, noncev, tx, signv, outv, chainNonce, external,
                   pool, logs>>

\* _replace_nonce_zero lines 206-209
CancelWait(c) ==
    /\ pc[c] = "cancel_wait"
    /\ \/ \E r \in receipts :
             /\ r.transactionHash = tx_hash[c]
             /\ receipts' = receipts \ {r}
             /\ IF r.status # 1
                THEN Raise(c, "ReplacementFailed")
                ELSE Goto(c, "refresh") /\ UNCHANGED err
       \/ /\ \A r \in receipts : r.transactionHash # tx_hash[c]
          /\ Raise(c, "TimeExhausted")
          /\ UNCHANGED receipts
    /\ UNCHANGED <<fixedv, signer, noncev, tx, signv, outv, chainNonce, external,
                   pool, logs>>

\* distribute_reward lines 228-230
RefreshNonce(c) ==
    /\ pc[c] = "refresh"
    /\ \E p \in PendingCounts :
          /\ pending_nonce' = [pending_nonce EXCEPT ![c] = p]
          /\ nonce' = [nonce EXCEPT ![c] = p]
    /\ Goto(c, "simulate")
    /\ UNCHANGED <<fixedv, signer, latest_nonce, fresh_pending, gas_est, tx,
                   signv, outv, err, nodev, logs>>

\* distribute_reward lines 239-247: the call cannot be encoded for a
\* negative uint256 argument, and the contract decides about the rest
Simulate(c) ==
    /\ pc[c] = "simulate"
    /\ \E reverts \in BOOLEAN :
          IF amount_wei[c] < 0 THEN Raise(c, "SimulationReverted")
          ELSE IF reverts THEN Raise(c, "SimulationReverted")
          ELSE Goto(c, "balance") /\ UNCHANGED err
    /\ UNCHANGED <<fixedv, signer, noncev, tx, signv, outv, nodev, logs>>

\* distribute_reward lines 249-254
CheckBalance(c) ==
    /\ pc[c] = "balance"
    /\ \E enough \in BOOLEAN :
          IF enough THEN Goto(c, "build") /\ UNCHANGED err
          ELSE Raise(c, "TooLittleGas")
    /\ UNCHANGED <<fixedv, signer, noncev, tx, signv, outv, nodev, logs>>

\* distribute_reward raising when estimate_gas raises
Build_aborts_without_estimate(c) ==
    /\ pc[c] = "build"
    /\ \E b \in BaseFees, f \in PriorityFees,
          est \in GasEstimates \cup {NoInt} :
          /\ gas_est' = [gas_est EXCEPT ![c] = est]
          /\ IF est = NoInt
             THEN Raise(c, "EstimateFailed") /\ UNCHANGED tx
             ELSE /\ tx' = [tx EXCEPT ![c] = reward_tx(nonce[c], b, f, est)]
                  /\ Goto(c, "sign1")
                  /\ UNCHANGED err
    /\ UNCHANGED <<fixedv, signer, latest_nonce, pending_nonce, nonce,
                   fresh_pending, signv, outv, nodev, logs>>

\* distribute_reward lines 257-300: fees from the node's report, the gas
\* estimate inside its own try block, then the transaction to send
Build(c) ==
    /\ pc[c] = "build"
    /\ \E b \in BaseFees, f \in PriorityFees,
          est \in GasEstimates \cup {NoInt} :
          /\ gas_est' = [gas_est EXCEPT ![c] = est]
          /\ tx' = [tx EXCEPT ![c] = reward_tx(nonce[c], b, f, est)]
    /\ Goto(c, "sign1")
    /\ UNCHANGED <<fixedv, signer, latest_nonce, pending_nonce, nonce,
                   fresh_pending, signv, outv, err, nodev, logs>>

\* _send_once(tx), line 303
SignFirst(c) ==
    /\ pc[c] = "sign1"
    /\ DoSign(c, tx[c], "send1")
    /\ UNCHANGED <<fixedv, signer, noncev, tx, outv, nodev, sent_log>>

\* the except clause retrying after every broadcast error
SendFirst_retries_any(c) ==
    /\ pc[c] = "send1"
    /\ \E ans \in {"accepted", "nonce too low", "rejected"} :
          /\ DoSend(c, ans)
          /\ IF ans = "accepted"
             THEN Goto(c, "wait") /\ UNCHANGED err
             ELSE Goto(c, "retry") /\ UNCHANGED err
    /\ UNCHANGED <<fixedv, signer, noncev, tx, result, report, chainNonce,
                   external, receipts, oracle_log>>

\* _send_once(tx), line 304, and the except clause of lines 308-319
SendFirst(c) ==
    /\ pc[c] = "send1"
    /\ \E ans \in {"accepted", "nonce too low", "rejected"} :
          /\ DoSend(c, ans)
          /\ CASE ans = "accepted" -> Goto(c, "wait") /\ UNCHANGED err
               [] ans = "nonce too low" -> Goto(c, "retry") /\ UNCHANGED err
               [] OTHER -> Raise(c, ans)
    /\ UNCHANGED <<fixedv, signer, noncev, tx, result, report, chainNonce,
                   external, receipts, oracle_log>>

\* distribute_reward retrying at the freshly queried pending count as it is
RetryQuery_takes_pending(c) ==
    /\ pc[c] = "retry"
    /\ \E p \in PendingCounts :
          /\ fresh_pending' = [fresh_pending EXCEPT ![c] = p]
          /\ tx' = [tx EXCEPT ![c] = [@ EXCEPT !.nonce = p]]
    /\ Goto(c, "sign2")
    /\ UNCHANGED <<fixedv, signer, latest_nonce, pending_nonce, nonce, gas_est,
                   signv, outv, err, nodev, logs>>

\* distribute_reward lines 311-313
RetryQuery(c) ==
    /\ pc[c] = "retry"
    /\ \E p \in PendingCounts :
          /\ fresh_pending' = [fresh_pending EXCEPT ![c] = p]
          /\ tx' = [tx EXCEPT ![c] = [@ EXCEPT !.nonce =
                                          Max(tx[c].nonce + 1, p)]]
    /\ Goto(c, "sign2")
    /\ UNCHANGED <<fixedv, signer, latest_nonce, pending_nonce, nonce, gas_est,
                   signv, outv, err, nodev, logs>>

\* _send_once(bumped), line 303
SignRetry(c) ==
    /\ pc[c] = "sign2"
    /\ DoSign(c, tx[c], "send2")
    /\ UNCHANGED <<fixedv, signer, noncev, tx, outv, nodev, sent_log>>

\* the retried broadcast handling 'nonce too low' again
SendRetry_loops(c) ==
    /\ pc[c] = "send2"
    /\ \E ans \in {"accepted", "nonce too low", "rejected"} :
          /\ DoSend(c, ans)
          /\ CASE ans = "accepted" -> Goto(c, "wait") /\ UNCHANGED err
               [] ans = "nonce too low" -> Goto(c, "retry") /\ UNCHANGED err
               [] OTHER -> Raise(c, ans)
    /\ UNCHANGED <<fixedv, signer, noncev, tx, result, report, chainNonce,
                   external, receipts, oracle_log>>

\* _send_once(bumped), line 304: an error raised inside the except clause
\* is not handled again
SendRetry(c) ==
    /\ pc[c] = "send2"
    /\ \E ans \in {"accepted", "nonce too low", "rejected"} :
          /\ DoSend(c, ans)
          /\ IF ans = "accepted"
             THEN Goto(c, "wait") /\ UNCHANGED err
             ELSE Raise(c, ans)
    /\ UNCHANGED <<fixedv, signer, noncev, tx, result, report, chainNonce,
                   external, receipts, oracle_log>>

\* wait_for_transaction_receipt without a timeout: the call blocks until
\* the receipt exists
WaitReceipt_no_timeout(c) ==
    /\ pc[c] = "wait"
    /\ \E r \in receipts :
          /\ r.transactionHash = tx_hash[c]
          /\ receipts' = receipts \ {r}
          /\ result' = [result EXCEPT ![c] = r]
          /\ Goto(c, "returned")
          /\ UNCHANGED err
    /\ UNCHANGED <<fixedv, signer, noncev, tx, signv, tx_hash, report,
                   chainNonce, external, pool, logs>>

\* distribute_reward returning the receipts that did not succeed and
\* raising for the ones that did
WaitReceipt_inverted(c) ==
    /\ pc[c] = "wait"
    /\ \/ \E r \in receipts :
             /\ r.transactionHash = tx_hash[c]
             /\ receipts' = receipts \ {r}
             /\ IF r.status = 1
                THEN Raise(c, "TransactionFailed") /\ UNCHANGED result
                ELSE /\ result' = [result EXCEPT ![c] = r]
                     /\ Goto(c, "returned")
                     /\ UNCHANGED err
       \/ /\ \A r \in receipts : r.transactionHash # tx_hash[c]
          /\ Raise(c, "TimeExhausted")
          /\ UNCHANGED <<result, receipts>>
    /\ UNCHANGED <<fixedv, signer, noncev, tx, signv, tx_hash, report,
                   chainNonce, external, pool, logs>>

\* distribute_reward lines 325-333
WaitReceipt(c) ==
    /\ pc[c] = "wait"
    /\ \/ \E r \in receipts :
             /\ r.transactionHash = tx_hash[c]
             /\ receipts' = receipts \ {r}
             /\ result' = [result EXCEPT ![c] = r]
             /\ Goto(c, "returned")
             /\ UNCHANGED err
       \/ /\ \A r \in receipts : r.transactionHash # tx_hash[c]
          /\ Raise(c, "TimeExhausted")
          /\ UNCHANGED <<result, receipts>>
    /\ UNCHANGED <<fixedv, signer, noncev, tx, signv, tx_hash, report,
                   chainNonce, external, pool, logs>>

\* send_test_reward Command.handle lines 15-25: the success message reads
\* result['tx_hash'] and result['gas_used']; a missing key raises inside
\* the try block and is reported like any other exception.  The command's
\* process then exits and its locals are gone.
Report(c) ==
    /\ pc[c] \in {"returned", "raised"}
    /\ report' = [report EXCEPT ![c] =
                     IF pc[c] = "returned"
                        /\ {"tx_hash", "gas_used"} \subseteq DOMAIN result[c]
                     THEN "Success" ELSE "Failed"]
    /\ Goto(c, "done")
    /\ latest_nonce' = [latest_nonce EXCEPT ![c] = NoInt]
    /\ pending_nonce' = [pending_nonce EXCEPT ![c] = NoInt]
    /\ nonce' = [nonce EXCEPT ![c] = NoInt]
    /\ fresh_pending' = [fresh_pending EXCEPT ![c] = NoInt]
    /\ gas_est' = [gas_est EXCEPT ![c] = NoInt]
    /\ tx' = [tx EXCEPT ![c] = NoTx]
    /\ sig' = [sig EXCEPT ![c] = NoSig]
    /\ oracle_log' = [oracle_log EXCEPT ![c] = <<>>]
    /\ sent_log' = [sent_log EXCEPT ![c] = <<>>]
    /\ recipient' = [recipient EXCEPT ![c] = NoAddr]
    /\ amount_wei' = [amount_wei EXCEPT ![c] = NoInt]
    /\ tx_hash' = [tx_hash EXCEPT ![c] = NoHash]
    /\ result' = [result EXCEPT ![c] = NoReceipt]
    /\ err' = [err EXCEPT ![c] = "none"]
    /\ UNCHANGED <<cfgv, otherv, signer, v_final, raw, nodev>>

\* One command process runs after another: a caller starts once every
\* earlier caller's process has ended.
Turn(c) == \A d \in Callers : d < c => pc[d] \in {"done", "crashed"}

Next ==
    \/ \E c \in Callers : Turn(c) /\ Construct(c)
    \/ \E c \in Callers : Call(c)
    \/ \E c \in Callers : GetNonce(c)
    \/ \E c \in Callers : CancelSign(c)
    \/ \E c \in Callers : CancelSend(c)
    \/ \E c \in Callers : CancelWait(c)
    \/ \E c \in Callers : RefreshNonce(c)
    \/ \E c \in Callers : Simulate(c)
    \/ \E c \in Callers : CheckBalance(c)
    \/ \E c \in Callers : Build(c)
    \/ \E c \in Callers : SignFirst(c)
    \/ \E c \in Callers : SendFirst(c)
    \/ \E c \in Callers : RetryQuery(c)
    \/ \E c \in Callers : SignRetry(c)
    \/ \E c \in Callers : SendRetry(c)
    \/ \E c \in Callers : WaitReceipt(c)
    \/ \E c \in Callers : Report(c)
    \/ Mine
    \/ ExternalTx

Spec == Init /\ [][Next]_vars

\* The command processes run concurrently: any caller may start and take
\* its next step at any time.  Every command is given a valid recipient
\* and the default amount.
NextConcurrent ==
    \/ \E c \in Callers : Construct(c)
    \/ \E c \in Callers : Call(c) /\ amount_wei'[c] = option_to_wei(Dec(10, 0))
    \/ \E c \in Callers : GetNonce(c)
    \/ \E c \in Callers : CancelSign(c)
    \/ \E c \in Callers : CancelSend(c)
    \/ \E c \in Callers : CancelWait(c)
    \/ \E c \in Callers : RefreshNonce(c)
    \/ \E c \in Callers : Simulate(c)
    \/ \E c \in Callers : CheckBalance(c)
    \/ \E c \in Callers : Build(c) /\ gas_est'[c] = NoInt
    \/ \E c \in Callers : SignFirst(c)
    \/ \E c \in Callers : SendFirst(c)
    \/ \E c \in Callers : RetryQuery(c)
    \/ \E c \in Callers : SignRetry(c)
    \/ \E c \in Callers : SendRetry(c)
    \/ \E c \in Callers : WaitReceipt(c)
    \/ \E c \in Callers : Report(c)
    \/ Mine
    \/ ExternalTx

SpecConcurrent == Init /\ [][NextConcurrent]_vars

\* ------------------------------------------------------ amount conversion
\* the service at rest while a pure function is exercised
ServiceIdle ==
    /\ ServiceInit
    /\ kms_key = "K_funded"
    /\ env_sender = NoAddr
    /\ chainNonce = 0

\* every amount of up to MaxAmount base units, written exactly in tokens
InitAmount ==
    /\ ServiceIdle
    /\ RestIdle
    /\ SignIdle
    /\ WebhookIdle
    /\ amount_option \in {from_base_units(x, TOKEN_DECIMALS) :
                            x \in 0..MaxAmount}
    /\ amount_out = NoInt

\* the command converts its --amount option
ConvertAmount ==
    /\ amount_out = NoInt
    /\ amount_out' = option_to_wei(amount_option)
    /\ UNCHANGED <<servicev, restv, signalonev, webhookv, amount_option>>

NextAmount == ConvertAmount

SpecAmount == InitAmount /\ [][NextAmount]_vars

\* ------------------------------------------------ sign_transaction alone
\* the transaction dicts a caller of sign_transaction can pass: 'type'
\* absent, 0 (legacy), 1 or 2, with gasPrice or with the EIP-1559 fee keys
SignTxs ==
    {[t EXCEPT !.type = ty, !.fees = f] :
        t \in {cancel_tx(b, p) : b \in BaseFees, p \in PriorityFees}
               \cup {reward_tx(n, b, p, est) :
                        n \in 0..1, b \in BaseFees, p \in PriorityFees,
                        est \in GasEstimates},
        ty \in {NoInt, 0, 1, 2}, f \in {"gasPrice", "eip1559"}}

InitSign ==
    /\ ServiceIdle
    /\ RestIdle
    /\ AmountIdle
    /\ WebhookIdle
    /\ sign_tx \in SignTxs
    /\ sign_resp \in AllSignatures
    /\ sign_out = NoSigned

\* KMSWeb3Signer.sign_transaction(sign_tx) with the oracle answering
\* sign_resp, on a signer whose address is the funded one
SignAlone ==
    /\ sign_out = NoSigned
    /\ sign_out' = sign_transaction(sign_tx, sign_resp, FUNDED_ADDRESS)
    /\ UNCHANGED <<servicev, restv, amountv, webhookv, sign_tx, sign_resp>>

NextSign == SignAlone

SpecSign == InitSign /\ [][NextSign]_vars

\* ------------------------------------------- FlutterwaveWebhookView.post
\* a pending purchase, with or without a wallet address
InitWebhook ==
    /\ ServiceIdle
    /\ RestIdle
    /\ AmountIdle
    /\ SignIdle
    /\ db \in {Purchase("pending", "not_started", "none", w) :
                  w \in {"wallet", ""}}
    /\ wh_pc = [d \in Deliveries |-> "idle"]
    /\ event = [d \in Deliveries |-> NoEvent]
    /\ payment = [d \in Deliveries |-> NoPurchase]
    /\ cmd = [d \in Deliveries |-> NoCmd]
    /\ transfers = <<>>

WhGoto(d, l) == wh_pc' = [wh_pc EXCEPT ![d] = l]

\* the response is sent: the request's locals are gone
WhDone(d) ==
    /\ WhGoto(d, "done")
    /\ event' = [event EXCEPT ![d] = NoEvent]
    /\ payment' = [payment EXCEPT ![d] = NoPurchase]
    /\ cmd' = [cmd EXCEPT ![d] = NoCmd]

\* post lines 33-52: a delivery arrives and the purchase is loaded
Load(d) ==
    /\ wh_pc[d] = "idle"
    /\ \E e \in Events : event' = [event EXCEPT ![d] = e]
    /\ payment' = [payment EXCEPT ![d] = db]
    /\ WhGoto(d, "loaded")
    /\ UNCHANGED <<servicev, restv, amountv, signalonev, db, cmd, transfers>>

\* post lines 80-99: the purchase status the event gives
event_status(e, p) ==
    IF e.status = "successful"
    THEN LET charged_amount == IF e.charged_amount = 0 THEN CHARGE_AMOUNT
                               ELSE e.charged_amount
         IN IF charged_amount >= CHARGE_AMOUNT
                 /\ upper(e.currency) = upper(p.currency)
            THEN "successful" ELSE "failed"
    ELSE IF e.status = "failed" THEN "failed"
    ELSE IF e.status = "cancelled" THEN "cancelled"
    ELSE "pending"

\* post lines 80-101: the status is set and payment.save() writes every
\* field of the loaded object
SaveStatus(d) ==
    /\ wh_pc[d] = "loaded"
    /\ LET p == [payment[d] EXCEPT
                    !.status = event_status(event[d], payment[d])]
       IN /\ payment' = [payment EXCEPT ![d] = p]
          /\ db' = p
    /\ WhGoto(d, "check")
    /\ UNCHANGED <<servicev, restv, amountv, signalonev, event, cmd, transfers>>

\* post lines 103-112: whether a transfer is due; without a wallet
\* address the transfer fails at once, otherwise PROCESSING is saved
Begin(d) ==
    /\ wh_pc[d] = "check"
    /\ IF payment[d].status = "successful"
            /\ payment[d].transfer_status # "successful"
       THEN IF payment[d].wallet_address = ""
            THEN /\ db' = [db EXCEPT
                              !.transfer_status = "failed",
                              !.transfer_error = "Missing wallet address"]
                 /\ WhDone(d)
            ELSE /\ payment' = [payment EXCEPT
                                   ![d].transfer_status = "processing"]
                 /\ db' = [db EXCEPT !.transfer_status = "processing"]
                 /\ WhGoto(d, "command")
                 /\ UNCHANGED <<event, cmd>>
       ELSE WhDone(d) /\ UNCHANGED db
    /\ UNCHANGED <<servicev, restv, amountv, signalonev, transfers>>

\* post lines 114-119: call_command('send_direct_transfer', ...)
RunCommand(d) ==
    /\ wh_pc[d] = "command"
    /\ \E ctor_raises \in BOOLEAN, res \in transfer_tokens :
          /\ cmd' = [cmd EXCEPT ![d] = handle(ctor_raises, res)]
          /\ transfers' = IF ctor_raises THEN transfers
                          ELSE Append(transfers, res)
    /\ WhGoto(d, "commanded")
    /\ UNCHANGED <<servicev, restv, amountv, signalonev, db, event, payment>>

\* post lines 120-129: SUCCESSFUL when call_command returned, FAILED with
\* the error when it raised; the three transfer fields are saved
Finish(d) ==
    /\ wh_pc[d] = "commanded"
    /\ db' = IF cmd[d].raised
             THEN [db EXCEPT !.transfer_status = "failed",
                             !.transfer_error = "exc"]
             ELSE [db EXCEPT !.transfer_status = "successful",
                             !.transfer_error = "none"]
    /\ WhDone(d)
    /\ UNCHANGED <<servicev, restv, amountv, signalonev, transfers>>

NextWebhook ==
    \/ \E d \in Deliveries : Load(d)
    \/ \E d \in Deliveries : SaveStatus(d)
    \/ \E d \in Deliveries : Begin(d)
    \/ \E d \in Deliveries : RunCommand(d)
    \/ \E d \in Deliveries : Finish(d)

SpecWebhook == InitWebhook /\ [][NextWebhook]_vars

\* --------------------------------------------------------- fees alone
\* every report the node can make of up to MaxFee gwei, with the priority
\* fee query and the gas estimate failing or not
InitFees ==
    /\ ServiceIdle
    /\ AmountIdle
    /\ SignIdle
    /\ WebhookIdle
    /\ KycIdle
    /\ fee_base \in 0..MaxFee
    /\ fee_priority \in {NoInt} \cup 0..MaxFee
    /\ fee_est \in GasEstimates \cup {NoInt}
    /\ fee_tx = NoTx

\* distribute_reward lines 257-300 on that report; line 257 has no try
\* block, so nothing is built when the priority fee query raises
BuildRewardAlone ==
    /\ fee_tx = NoTx
    /\ fee_priority # NoInt
    /\ fee_tx' = reward_tx(0, fee_base, fee_priority, fee_est)
    /\ UNCHANGED <<servicev, amountv, signalonev, webhookv, kycv, fee_base,
                   fee_priority, fee_est>>

\* _replace_nonce_zero lines 180-200 on that report
BuildCancelAlone ==
    /\ fee_tx = NoTx
    /\ fee_tx' = cancel_tx(fee_base, fee_priority)
    /\ UNCHANGED <<servicev, amountv, signalonev, webhookv, kycv, fee_base,
                   fee_priority, fee_est>>

NextFees == BuildRewardAlone \/ BuildCancelAlone

SpecFees == InitFees /\ [][NextFees]_vars

\* ------------------------------------------------- UserViewSet.kyc_reward
\* the wallet addresses a request can submit
Wallets == {Addr("Recipient", "lower"), Addr("Other", "checksum")}

\* KMSWeb3Signer.send_token_transfer(wallet_address, amount): it returns
\* the hash of the transfer it sent, or raises
send_token_transfer == {"sent", "raised"}

InitKyc ==
    /\ ServiceIdle
    /\ AmountIdle
    /\ SignIdle
    /\ WebhookIdle
    /\ FeesIdle
    /\ kyc_user \in {User(v, r, w) : v \in BOOLEAN, r \in BOOLEAN,
                                     w \in {NoAddr, Addr("Recipient", "lower")}}
    /\ kyc_pc = [r \in Requests |-> "new"]
    /\ kyc_obj = [r \in Requests |-> NoUser]
    /\ kyc_wallet = [r \in Requests |-> NoAddr]
    /\ kyc_resp = [r \in Requests |-> NoInt]
    /\ kyc_signers = {}
    /\ kyc_sent = <<>>

KycGoto(r, l) == kyc_pc' = [kyc_pc EXCEPT ![r] = l]

\* the view answers the request
KycRespond(r, code) ==
    /\ kyc_resp' = [kyc_resp EXCEPT ![r] = code]
    /\ KycGoto(r, "done")

\* authentication loads request.user; line 95
KycLoad(r) ==
    /\ kyc_pc[r] = "new"
    /\ kyc_obj' = [kyc_obj EXCEPT ![r] = kyc_user]
    /\ \E w \in Wallets : kyc_wallet' = [kyc_wallet EXCEPT ![r] = w]
    /\ KycGoto(r, "check")
    /\ UNCHANGED <<servicev, amountv, signalonev, webhookv, feev, kyc_user,
                   kyc_resp, kyc_signers, kyc_sent>>

\* lines 96-120: the four rejections; taken says whether another account
\* holds the submitted wallet address
KycCheck(r) ==
    /\ kyc_pc[r] = "check"
    /\ \E taken \in BOOLEAN :
          IF \/ ~kyc_obj[r].is_kyc_verified
             \/ kyc_obj[r].has_been_kyc_rewarded
             \/ /\ kyc_obj[r].wallet_address # NoAddr
                /\ lower(kyc_obj[r].wallet_address) # lower(kyc_wallet[r])
             \/ taken
          THEN KycRespond(r, 400)
          ELSE KycGoto(r, "send") /\ UNCHANGED kyc_resp
    /\ UNCHANGED <<servicev, amountv, signalonev, webhookv, feev, kyc_user,
                   kyc_obj, kyc_wallet, kyc_signers, kyc_sent>>

\* lines 122-131: the signer is constructed and the transfer sent inside
\* one try block
KycSend(r) ==
    /\ kyc_pc[r] = "send"
    /\ \E ctor_raises \in BOOLEAN, out \in send_token_transfer :
          IF ctor_raises
          THEN KycRespond(r, 502) /\ UNCHANGED <<kyc_signers, kyc_sent>>
          ELSE /\ kyc_signers' = kyc_signers \cup {r}
               /\ IF out = "raised"
                  THEN KycRespond(r, 502) /\ UNCHANGED kyc_sent
                  ELSE /\ kyc_sent' = Append(kyc_sent, r)
                       /\ KycGoto(r, "save")
                       /\ UNCHANGED kyc_resp
    /\ UNCHANGED <<servicev, amountv, signalonev, webhookv, feev, kyc_user,
                   kyc_obj, kyc_wallet>>

\* lines 133-154: save(update_fields=['wallet_address',
\* 'has_been_kyc_rewarded']) and the 200 response
KycSave(r) ==
    /\ kyc_pc[r] = "save"
    /\ kyc_user' = [kyc_user EXCEPT !.wallet_address = kyc_wallet[r],
                                    !.has_been_kyc_rewarded = TRUE]
    /\ KycRespond(r, 200)
    /\ UNCHANGED <<servicev, amountv, signalonev, webhookv, feev, kyc_obj,
                   kyc_wallet, kyc_signers, kyc_sent>>

NextKyc ==
    \/ \E r \in Requests : KycLoad(r)
    \/ \E r \in Requests : KycCheck(r)
    \/ \E r \in Requests : KycSend(r)
    \/ \E r \in Requests : KycSave(r)

SpecKyc == InitKyc /\ [][NextKyc]_vars

\* every step caller c's command process can take
Step(c) ==
    \/ Turn(c) /\ Construct(c)
    \/ Call(c)
    \/ GetNonce(c)
    \/ CancelSign(c)
    \/ CancelSend(c)
    \/ CancelWait(c)
    \/ RefreshNonce(c)
    \/ Simulate(c)
    \/ CheckBalance(c)
    \/ Build(c)
    \/ SignFirst(c)
    \/ SendFirst(c)
    \/ RetryQuery(c)
    \/ SignRetry(c)
    \/ SendRetry(c)
    \/ WaitReceipt(c)
    \/ Report(c)

\* estimate_gas answers (lines 291-294).  No later step of the call reads
\* the gas limit, so the runs in which it raises take the same steps.
EstimateAnswers(c) == pc[c] = "build" => gas_est'[c] # NoInt

NextFair ==
    \/ \E c \in Callers : Step(c) /\ EstimateAnswers(c)
    \/ Mine
    \/ ExternalTx

\* A command process keeps running: each of its node and oracle calls
\* returns or raises (the receipt waits carry timeout=300), so a process
\* that can take a step eventually takes one.  The chain owes nothing.
SpecFair ==
    /\ Init
    /\ [][NextFair]_vars
    /\ \A c \in Callers : WF_vars(Step(c) /\ EstimateAnswers(c))

\* ------------------------------------------------------------- properties
IsReward(e) == e.kind = "reward"

IsCancel(e) == e.kind = "cancel"

RewardSigns(c) == SelectSeq(oracle_log[c], IsReward)

RewardSends(c) == SelectSeq(sent_log[c], IsReward)

CancelSigns(c) == SelectSeq(oracle_log[c], IsCancel)

CancelSends(c) == SelectSeq(sent_log[c], IsCancel)

Matches(sg, sender) == \E v \in {0, 1} : RecoveredAddr(sg, v) = sender

\* C1: recover_v returns v only when v is 0 or 1 and the address recovered
\* with v equals the sender address; when neither candidate matches (also
\* when recovery raises for both) it raises and returns no recovery id.
C1_RecoverVReturnsOnlyMatch ==
    \A c \in Callers :
        /\ v_final[c] # NoInt =>
              /\ v_final[c] \in {0, 1}
              /\ RecoveredAddr(sig[c], v_final[c]) = sender_address[c]
        /\ (sig[c] \in Signatures /\ ~Matches(sig[c], sender_address[c])) =>
              /\ v_final[c] = NoInt
              /\ raw[c] = NoRaw
              /\ pc[c] = "raised"
              /\ err[c] = "SignatureRecoveryFailed"

\* recover_v skipped a raising candidate 0 and returned candidate 1
C1_Witness ==
    \E c \in Callers :
        /\ v_final[c] = 1
        /\ RecoveredAddr(sig[c], 0) = ExcAddr
        /\ RecoveredAddr(sig[c], 1) = sender_address[c]

\* C2: a transaction reaches send_raw_transaction only after recover_v
\* found a recovery id whose recovered address is the sender; when the
\* oracle's signature matches for neither id the call ends in a signature
\* recovery failure and the transaction that was being signed is not sent.
C2_BroadcastOnlyAfterRecovery ==
    \A c \in Callers :
        /\ \A i \in 1..Len(sent_log[c]) :
              /\ sent_log[c][i].from = sender_address[c]
              /\ i <= Len(oracle_log[c])
              /\ oracle_log[c][i].kind = sent_log[c][i].kind
              /\ oracle_log[c][i].nonce = sent_log[c][i].nonce
        /\ raw[c] # NoRaw => raw[c].from = sender_address[c]
        /\ (sig[c] \in Signatures /\ ~Matches(sig[c], sender_address[c])) =>
              /\ pc[c] = "raised"
              /\ err[c] = "SignatureRecoveryFailed"
              /\ Len(sent_log[c]) = Len(oracle_log[c]) - 1

\* a reward transaction signed with a resolved recovery id was broadcast
\* and accepted
C2_Witness ==
    \E c \in Callers :
        /\ Len(RewardSends(c)) = 1
        /\ RewardSends(c)[1].res = "accepted"
        /\ RewardSends(c)[1].from = FUNDED_ADDRESS

\* C3: no two callers in flight have built their transactions with the
\* same nonce.
InFlight(c) == pc[c] \in {"sign1", "send1", "retry", "sign2", "send2", "wait"}

C3_DistinctNonces ==
    \A c, d \in Callers :
        (c # d /\ InFlight(c) /\ InFlight(d)) => tx[c].nonce # tx[d].nonce

\* C4: whenever distribute_reward assigns the nonce of the reward
\* transaction, it is the maximum of the node's confirmed count and the
\* pending count the node reports, on the nonce-0 path too.
C4_NonceIsMaxOfCounts ==
    [][\A c \in Callers :
          (pc[c] \in {"get_nonce", "refresh"} /\ pc'[c] # pc[c]) =>
              nonce'[c] = Max(LatestCount, pending_nonce'[c])]_vars

\* C5: when the simulation reverts, the call has made no signing request
\* and no broadcast.
C5_FailedSimulationConsumesNothing ==
    \A c \in Callers :
        (pc[c] = "raised" /\ err[c] = "SimulationReverted") =>
            (oracle_log[c] = <<>> /\ sent_log[c] = <<>>)

\* C6: every signing request and every broadcast of a call happens after
\* that call's simulation succeeded.
Simulated(c) ==
    pc[c] \in {"balance", "build", "sign1", "send1", "retry", "sign2",
               "send2", "wait"}

C6_SimulateBeforeSignAndBroadcast ==
    [][\A c \in Callers :
          (Len(oracle_log'[c]) > Len(oracle_log[c])
             \/ Len(sent_log'[c]) > Len(sent_log[c])) => Simulated(c)]_vars

\* C7: after the node rejects the first reward broadcast with 'nonce too
\* low', the pending count is queried again and the transaction is signed
\* and broadcast once more with the refreshed nonce; an accepted second
\* broadcast goes on to the receipt wait, a rejected one surfaces its
\* error, and there is never a third signing request or broadcast.
Terminated(c) == pc[c] \in {"returned", "raised"}

C7_NonceTooLowRetriedOnce ==
    \A c \in Callers :
        LET rs == RewardSends(c)
            os == RewardSigns(c)
        IN /\ Len(rs) <= 2
           /\ Len(os) <= 2
           /\ Len(os) = 2 => (Len(rs) >= 1 /\ rs[1].res = "nonce too low")
           /\ (Len(rs) >= 1 /\ rs[1].res = "nonce too low") =>
                 /\ pc[c] \in {"retry", "sign2", "send2", "wait", "returned",
                               "raised"}
                 /\ pc[c] = "retry" <=> fresh_pending[c] = NoInt
                 /\ pc[c] # "retry" =>
                       tx[c].nonce = Max(rs[1].nonce + 1, fresh_pending[c])
                 /\ pc[c] \in {"retry", "sign2"} <=> Len(os) = 1
                 /\ Len(os) = 2 => os[2].nonce = tx[c].nonce
                 /\ pc[c] = "send2" => Len(rs) = 1
                 /\ (pc[c] = "raised" /\ Len(rs) = 1) =>
                       err[c] \in {"OracleError", "SignatureRecoveryFailed"}
           /\ Len(rs) = 2 =>
                 /\ rs[2].nonce = tx[c].nonce
                 /\ rs[2].nonce > rs[1].nonce
                 /\ IF rs[2].res = "accepted"
                    THEN /\ tx_hash[c] = <<c, "reward", rs[2].nonce>>
                         /\ pc[c] \in {"wait", "returned", "raised"}
                         /\ pc[c] = "raised" => err[c] = "TimeExhausted"
                    ELSE pc[c] = "raised" /\ err[c] = rs[2].res

\* the first broadcast was rejected with 'nonce too low' and the retried
\* one was accepted and is being confirmed
C7_Witness ==
    \E c \in Callers :
        /\ pc[c] = "wait"
        /\ Len(RewardSends(c)) = 2
        /\ RewardSends(c)[1].res = "nonce too low"
        /\ RewardSends(c)[2].res = "accepted"

PastNonce(c) ==
    pc[c] \in {"simulate", "balance", "build", "sign1", "send1", "retry",
               "sign2", "send2", "wait", "returned"}

Constructed(c) == pc[c] \notin {"new", "crashed"}

C10_TimeoutNotReportedFailed ==
    [][\A c \in Callers :
          (pc[c] = "raised" /\ err[c] = "TimeExhausted"
             /\ tx_hash[c][2] = "reward" /\ pc'[c] = "done") =>
              report'[c] # "Failed"]_vars

\* C11: the command reports success exactly for a returned receipt with
\* status 1: a status-1 receipt is never reported as a failure and a
\* receipt with another status is never reported as a success.
C11_ReceiptStatusReported ==
    [][\A c \in Callers :
          (pc[c] = "returned" /\ pc'[c] = "done") =>
              (report'[c] = "Success" <=> result[c].status = 1)]_vars

\* C14: when the sender's native balance is below the minimum, the call
\* has made no signing request and no broadcast, whatever nonce it
\* started from.
C14_LowBalanceConsumesNothing ==
    \A c \in Callers :
        (pc[c] = "raised" /\ err[c] = "TooLittleGas") =>
            (oracle_log[c] = <<>> /\ sent_log[c] = <<>>)

\* C15: when the node rejects the first reward broadcast with an error
\* that is not 'nonce too low', that error leaves the call: the pending
\* count is not queried again, nothing is signed or broadcast a second
\* time and no receipt is waited for.
C15_OtherSendErrorSurfaces ==
    \A c \in Callers :
        LET rs == RewardSends(c)
        IN (Len(rs) >= 1 /\ rs[1].res \notin {"accepted", "nonce too low"}) =>
              /\ pc[c] = "raised"
              /\ err[c] = rs[1].res
              /\ Len(rs) = 1
              /\ Len(RewardSigns(c)) = 1
              /\ fresh_pending[c] = NoInt
              /\ tx_hash[c][2] # "reward"
              /\ result[c] = NoReceipt

\* the first reward broadcast was rejected with another error
C15_Witness ==
    \E c \in Callers :
        /\ pc[c] = "raised"
        /\ Len(RewardSends(c)) = 1
        /\ RewardSends(c)[1].res = "rejected"
        /\ err[c] = "rejected"

\* C17: a call whose first reward broadcast is accepted has signed and
\* broadcast exactly one reward transaction, signed by the sender, and
\* when the node holds that transaction's receipt with status 1 the call
\* returns it.
C17_HappyPathSucceeds ==
    /\ [](\A c \in Callers :
            LET rs == RewardSends(c)
            IN (Len(rs) >= 1 /\ rs[1].res = "accepted") =>
                  /\ Len(rs) = 1
                  /\ Len(RewardSigns(c)) = 1
                  /\ rs[1].from = sender_address[c]
                  /\ pc[c] \in {"wait", "returned", "raised"}
                  /\ pc[c] = "raised" => err[c] = "TimeExhausted"
                  /\ pc[c] = "returned" =>
                        result[c].transactionHash
                            = <<c, "reward", rs[1].nonce>>)
    /\ [][\A c \in Callers :
            (pc[c] = "wait" /\ pc'[c] # "wait"
               /\ Receipt(tx_hash[c], 1) \in receipts) =>
                (pc'[c] = "returned" /\ result'[c] = Receipt(tx_hash[c], 1))
         ]_vars

\* the single accepted reward broadcast was mined with status 1 and the
\* call returned its receipt
C17_Witness ==
    \E c \in Callers :
        /\ pc[c] = "returned"
        /\ result[c].status = 1
        /\ Len(RewardSends(c)) = 1
        /\ RewardSends(c)[1].res = "accepted"

\* C16: a call makes at most three signing requests and three broadcasts
\* (one self-transfer and two reward attempts, the second being the single
\* retry), and every call that has started ends by returning or raising.
C16_CallTerminates ==
    /\ [](\A c \in Callers :
            /\ Len(oracle_log[c]) <= 3
            /\ Len(sent_log[c]) <= Len(oracle_log[c])
            /\ Len(CancelSigns(c)) <= 1
            /\ Len(RewardSigns(c)) <= 2)
    /\ \A c \in Callers :
          (pc[c] = "get_nonce") ~> (pc[c] \in {"returned", "raised", "done"})

\* a call used every attempt it has: the self-transfer, the reward and the
\* retried reward were all signed and broadcast
C16_Witness ==
    \E c \in Callers :
        /\ Len(oracle_log[c]) = 3
        /\ Len(sent_log[c]) = 3
        /\ Terminated(c)

\* C13: a call whose recipient is not an address is rejected without a
\* nonce query, and a call whose amount is zero or negative queries no
\* nonce, asks for no signature and broadcasts nothing.
C13_InvalidRequestRejectedFirst ==
    \A c \in Callers :
        /\ (pc[c] = "raised" /\ err[c] = "InvalidAddress") =>
              (latest_nonce[c] = NoInt /\ oracle_log[c] = <<>>)
        /\ (amount_wei[c] # NoInt /\ amount_wei[c] <= 0) =>
              /\ latest_nonce[c] = NoInt
              /\ pending_nonce[c] = NoInt
              /\ oracle_log[c] = <<>>
              /\ sent_log[c] = <<>>

\* C19: the base units computed for an amount written exactly in tokens
\* are the base units the amount stands for.
C19_AmountRoundTrip ==
    amount_out # NoInt => amount_out = amount_option.digits

\* C18: the s of every signed transaction is at most half the group
\* order: it is the oracle's s, or its complement when the oracle's s was
\* above half, and the recovery id in the transaction is the one under
\* which that same s recovers the sender.
C18_LowSNormalised ==
    sign_out.ok =>
        LET r == sign_out.raw
            used == IF r.s = sign_resp.s THEN sign_resp
                    ELSE [sign_resp EXCEPT !.s = r.s, !.par = 1 - sign_resp.par]
        IN /\ r.s >= 1
           /\ 2 * r.s <= SECP256K1_N
           /\ r.s = IF 2 * sign_resp.s > SECP256K1_N
                    THEN SECP256K1_N - sign_resp.s ELSE sign_resp.s
           /\ r.v \in {0, 1}
           /\ RecoveredAddr(used, r.v) = FUNDED_ADDRESS
           /\ r.from = FUNDED_ADDRESS

\* the oracle returned an s above half the order and the transaction was
\* signed with its complement
C18_Witness ==
    /\ sign_out.ok
    /\ 2 * sign_resp.s > SECP256K1_N
    /\ sign_out.raw.s = SECP256K1_N - sign_resp.s
    /\ sign_out.raw.v = 1 - sign_resp.par

\* C20 (as claimed): sign_transaction signs both kinds of transaction: one
\* with gasPrice becomes a legacy envelope and one with the EIP-1559 fee
\* keys becomes a typed envelope, whatever the oracle's valid answer.
SignsCleanly ==
    sign_resp.st = "ok" /\ Matches(sign_resp, FUNDED_ADDRESS)

C12_TransferFailureRecorded ==
    [][\A d \in Deliveries :
          (wh_pc[d] = "commanded" /\ wh_pc'[d] = "done") =>
              IF ~cmd[d].res.raised /\ cmd[d].res.status = 1
              THEN db'.transfer_status = "successful"
              ELSE /\ db'.transfer_status = "failed"
                   /\ db'.transfer_error # "none"]_vars
\* C21: the raw transaction sign_transaction returns is the type byte
\* 0x02 followed by the list that was hashed for the oracle -- chainId,
\* nonce, maxPriorityFeePerGas, maxFeePerGas, gas, to, value, data,
\* accessList, each with the value of the dict passed in and in this order
\* -- followed by the signature; nothing changes between hashing and
\* envelope assembly.
C21_RawCarriesSignedPayload ==
    (sign_out # NoSigned /\ sign_out.ok) =>
        LET pl == sign_out.raw.payload
        IN /\ sign_out.raw.type = 2
           /\ sign_out.digest.type = 2
           /\ pl = sign_out.digest.payload
           /\ Len(pl) = 9
           /\ pl[1] = <<"chainId", sign_tx.chainId>>
           /\ pl[2] = <<"nonce", sign_tx.nonce>>
           /\ pl[3] = <<"maxPriorityFeePerGas", sign_tx.maxPriorityFeePerGas>>
           /\ pl[4] = <<"maxFeePerGas", sign_tx.maxFeePerGas>>
           /\ pl[5] = <<"gas", sign_tx.gas>>
           /\ pl[6] = <<"to", sign_tx.to>>
           /\ pl[7] = <<"value", sign_tx.value>>
           /\ pl[8] = <<"data", sign_tx.data>>
           /\ pl[9] = <<"accessList", sign_tx.accessList>>
           /\ sign_out.raw.v \in {0, 1}
           /\ sign_out.raw.s = low_s(sign_resp).s

\* a reward transaction whose two fees differ was signed
C21_Witness ==
    /\ sign_out.ok
    /\ sign_tx.kind = "reward"
    /\ sign_tx.maxFeePerGas # sign_tx.maxPriorityFeePerGas
    /\ sign_out.raw.payload[3][2] = sign_tx.maxPriorityFeePerGas

\* C22: recover_v tries candidate 0 and then candidate 1; an exception
\* while recovering with candidate 0 does not keep candidate 1 from being
\* tried, and the id used is the lowest candidate whose recovered address
\* is the sender address.
C22_RecoverVTriesBothInOrder ==
    (sign_out # NoSigned /\ sign_out.asked /\ sign_resp # KmsError) =>
        LET n == low_s(sign_resp)
            M == {v \in {0, 1} : RecoveredAddr(n, v) = FUNDED_ADDRESS}
        IN /\ M = {} =>
                 (~sign_out.ok /\ sign_out.err = "SignatureRecoveryFailed")
           /\ M # {} =>
                 /\ sign_out.ok
                 /\ sign_out.raw.v \in M
                 /\ \A w \in M : sign_out.raw.v <= w
           /\ (RecoveredAddr(n, 0) = ExcAddr /\ 1 \in M) =>
                 (sign_out.ok /\ sign_out.raw.v = 1)

\* recovery raised for candidate 0 and candidate 1 was used
C22_Witness ==
    /\ sign_out.ok
    /\ sign_out.raw.v = 1
    /\ RecoveredAddr(low_s(sign_resp), 0) = ExcAddr

\* C23: the gas limit of a reward transaction is floor(1.3 x estimate)
\* when estimate_gas answers, hence at least the estimate; when
\* estimate_gas raises the call goes on to signing and broadcast with the
\* gas limit 200000.
C23_GasLimitFromEstimate ==
    [][\A c \in Callers :
          (pc[c] = "build" /\ pc'[c] # "build") =>
              /\ pc'[c] = "sign1"
              /\ tx'[c].kind = "reward"
              /\ gas_est'[c] # NoInt =>
                    /\ 10 * tx'[c].gas <= 13 * gas_est'[c]
                    /\ 13 * gas_est'[c] < 10 * (tx'[c].gas + 1)
                    /\ tx'[c].gas >= gas_est'[c]
              /\ gas_est'[c] = NoInt => tx'[c].gas = 200000]_vars

\* a reward transaction with the fallback gas limit was broadcast
C23_Witness ==
    \E c \in Callers :
        /\ pc[c] = "wait"
        /\ gas_est[c] = NoInt
        /\ tx[c].gas = 200000
        /\ RewardSends(c) # <<>>

\* C24: when the nonce-0 replacement fails at any step -- signing, the
\* broadcast, the receipt wait timing out, a receipt with a status other
\* than 1 -- distribute_reward raises and no reward transaction is
\* simulated, signed or broadcast in that call.
C24_FailedReplacementStopsCall ==
    [][\A c \in Callers :
          /\ (pc[c] = "cancel_sign" /\ pc'[c] # pc[c]) =>
                \/ pc'[c] = "raised"
                \/ /\ pc'[c] = "cancel_send"
                   /\ raw'[c].kind = "cancel"
                   /\ raw'[c].from = sender_address[c]
          /\ (pc[c] = "cancel_send" /\ pc'[c] # pc[c]) =>
                \/ pc'[c] = "raised"
                \/ /\ pc'[c] = "cancel_wait"
                   /\ CancelSends(c)' = <<[kind |-> "cancel", nonce |-> 0,
                                           from |-> sender_address[c],
                                           res |-> "accepted"]>>
          /\ (pc[c] = "cancel_wait" /\ pc'[c] # pc[c]) =>
                \/ pc'[c] = "raised"
                \/ /\ pc'[c] = "refresh"
                   /\ Receipt(tx_hash[c], 1) \in receipts
                   /\ \A r \in receipts :
                         r.transactionHash = tx_hash[c] => r.status = 1
          /\ (pc[c] \in {"cancel_sign", "cancel_send", "cancel_wait"}
                /\ pc'[c] = "raised") =>
                (RewardSigns(c)' = <<>> /\ RewardSends(c)' = <<>>)
          /\ pc[c] = "raised" =>
                /\ pc'[c] \in {"raised", "done"}
                /\ Len(RewardSigns(c)') <= Len(RewardSigns(c))
                /\ Len(RewardSends(c)') <= Len(RewardSends(c))]_vars

\* the replacement's receipt had status 0 and the call raised
C24_Witness ==
    \E c \in Callers :
        /\ pc[c] = "raised"
        /\ err[c] = "ReplacementFailed"
        /\ CancelSends(c) # <<>>
        /\ RewardSigns(c) = <<>>

\* C25: on the 'nonce too low' retry the transaction signed again differs
\* from the first only in its nonce, which is max(first nonce + 1, fresh
\* pending count) and so greater than the first nonce; the receipt awaited
\* and returned is the one of the hash the retried broadcast returned.
C25_RetryDiffersOnlyInNonce ==
    \A c \in Callers :
        LET os == RewardSigns(c)
            rs == RewardSends(c)
        IN /\ (pc[c] \in {"sign2", "send2"} /\ os # <<>>) =>
                 /\ tx[c] = [os[1].tx EXCEPT !.nonce =
                                Max(os[1].tx.nonce + 1, fresh_pending[c])]
                 /\ tx[c].nonce > os[1].tx.nonce
           /\ Len(os) = 2 =>
                 /\ os[2].tx = [os[1].tx EXCEPT !.nonce =
                                   Max(os[1].tx.nonce + 1, fresh_pending[c])]
                 /\ os[2].tx.nonce > os[1].tx.nonce
           /\ (Len(rs) = 2 /\ pc[c] \in {"wait", "returned"}) =>
                 /\ tx_hash[c] = <<c, "reward", os[2].tx.nonce>>
                 /\ tx_hash[c] # <<c, "reward", os[1].tx.nonce>>
           /\ (Len(rs) = 2 /\ pc[c] = "returned") =>
                 result[c].transactionHash = tx_hash[c]

\* the retry went out at first nonce + 1 because the fresh pending count
\* was not above the first nonce
C25_Witness ==
    \E c \in Callers :
        /\ pc[c] = "wait"
        /\ Len(RewardSends(c)) = 2
        /\ fresh_pending[c] <= RewardSigns(c)[1].tx.nonce
        /\ tx[c].nonce = RewardSigns(c)[1].tx.nonce + 1

\* C26: a delivery does not start a transfer for a purchase whose
\* transfer_status is PROCESSING or SUCCESSFUL, so at most one transfer is
\* started per purchase.
C26_NoSecondTransferStarted ==
    [][\A d \in Deliveries :
          (wh_pc[d] = "check" /\ wh_pc'[d] = "command") =>
              db.transfer_status \notin {"processing", "successful"}]_vars

\* C27: for one user at most one reward transfer is sent, however the
\* kyc_reward requests interleave.
C27_AtMostOneKycTransfer == Len(kyc_sent) <= 1

\* C28: a delivery invokes the transfer command only when the event status
\* is 'successful', the event's charged amount is at least the purchase's
\* charge_amount, the currencies are equal and the purchase has a wallet
\* address.
C28_TransferOnlyForPaidPurchase ==
    [][\A d \in Deliveries :
          (wh_pc[d] = "check" /\ wh_pc'[d] = "command") =>
              /\ event[d].status = "successful"
              /\ event[d].charged_amount >= CHARGE_AMOUNT
              /\ upper(event[d].currency) = upper(payment[d].currency)
              /\ payment[d].wallet_address # ""]_vars

\* C29: in every transaction built for signing maxFeePerGas is at least
\* maxPriorityFeePerGas, whatever non-negative base fee and priority fee
\* the node reports: the reward transaction carries the reported priority
\* fee and floor(1.5 x (base + priority)), the nonce-0 replacement a
\* priority fee of at least 80 gwei and max(2 x base + priority, 120 gwei).
C29_MaxFeeCoversPriorityFee ==
    fee_tx # NoTx =>
        /\ fee_tx.maxFeePerGas >= fee_tx.maxPriorityFeePerGas
        /\ fee_tx.kind = "reward" =>
              /\ fee_tx.maxPriorityFeePerGas = fee_priority
              /\ 2 * fee_tx.maxFeePerGas <= 3 * (fee_base + fee_priority)
              /\ 3 * (fee_base + fee_priority) < 2 * (fee_tx.maxFeePerGas + 1)
        /\ fee_tx.kind = "cancel" =>
              /\ fee_tx.maxPriorityFeePerGas >= 80
              /\ fee_tx.maxPriorityFeePerGas =
                    (IF fee_priority = NoInt \/ fee_priority < 80
                     THEN 80 ELSE fee_priority)
              /\ fee_tx.maxFeePerGas =
                    (IF 2 * fee_base + fee_tx.maxPriorityFeePerGas >= 120
                     THEN 2 * fee_base + fee_tx.maxPriorityFeePerGas
                     ELSE 120)

\* a reward transaction was built on a base fee of 0
C29_Witness ==
    /\ fee_tx.kind = "reward"
    /\ fee_base = 0
    /\ fee_priority > 0

\* C30: sign_transaction raises for every transaction whose 'type' is not
\* 0x02 before anything is sent to the oracle: no digest is computed for
\* the oracle and no signature comes out.
C30_WrongTypeRejectedBeforeOracle ==
    (sign_out # NoSigned /\ sign_tx.type # 2) =>
        /\ ~sign_out.ok
        /\ sign_out.err = "OnlyEIP1559"
        /\ ~sign_out.asked
        /\ sign_out.digest = NoDigest
        /\ sign_out.raw = NoRaw

\* a type-1 transaction with EIP-1559 fee keys, which the oracle would
\* have signed cleanly, was rejected
C30_Witness ==
    /\ sign_tx.type = 1
    /\ sign_tx.fees = "eip1559"
    /\ SignsCleanly
    /\ sign_out.err = "OnlyEIP1559"
    /\ ~sign_out.asked

====
